---- MODULE Spec2Model ----
(***************************************************************************)
(* SingleLinkedList<Type> (single-linked-list.h) as a state machine over   *)
(* an explicit heap.  Every operation of the class is an operator from a   *)
(* memory record to a memory record, translated statement by statement;    *)
(* the actions apply these operators to the current memory.                *)
(***************************************************************************)
EXTENDS Integers, Sequences, FiniteSets, TLC

\* ------------------------------------------------------------------ bounds
\* Heap cells available to `new Node`; with none left `new` throws.
MaxNodes == 4
\* Cap on size_ in the guards of the operations that increment it.
MaxSize == 3
\* Longest initializer list handed to the constructor.
MaxInit == 2

\* The element type's values (Type = a small totally ordered set).
Values == {1, 2}
\* The list objects of the program; rhs_copy is the local of operator=.
Lists == {"A", "B"}
rhs_copy == "rhs_copy"
\* Addresses of heap nodes.
Nodes == 1..MaxNodes
\* nullptr
Null == 0

\* &head_ of each list object: the sentinel node is a member of the list,
\* so its address is distinct from every heap node and from nullptr.
head_(l) == CASE l = "A" -> -1 [] l = "B" -> -2 [] OTHER -> -3

VARIABLES
    next_node,  \* Node::next_node of every live node, sentinels included
    value,      \* Node::value of every allocated heap node
    size_,      \* SingleLinkedList::size_ of every constructed list
    fault,      \* "none", or how the process died (assert / null dereference)
    last        \* the call that produced this state, when tracked (history)

vars == <<next_node, value, size_, fault, last>>

\* The memory as one record; ret/threw/allocs/frees describe the outcome of
\* the operation that produced it.
State ==
    [next_node |-> next_node, value |-> value, size_ |-> size_,
     fault |-> fault, ret |-> Null, threw |-> FALSE,
     allocs |-> {}, frees |-> {}]

Constructed(s) == DOMAIN s.size_
Allocated(s) == DOMAIN s.value
FreeAddrs(s) == Nodes \ Allocated(s)

\* f without the key k
Drop(f, k) == [x \in (DOMAIN f) \ {k} |-> f[x]]

\* The elements of the sequence q
SetOf(q) == {q[i] : i \in 1..Len(q)}

\* ------------------------------------------------------------- iterators
begin(s, l) == s.next_node[head_(l)]
end == Null
before_begin(l) == head_(l)
cbefore_begin(l) == head_(l)

\* BasicIterator::operator++
Incr(s, node) == IF node # Null THEN s.next_node[node] ELSE node

\* for (it = begin(); it != end(); ++it): the nodes visited, in order.
\* fuel stops the walk of a (hypothetical) cyclic chain.
RECURSIVE Walk(_, _, _)
Walk(s, node, fuel) ==
    IF node = end \/ fuel = 0 THEN <<>>
    ELSE <<node>> \o Walk(s, Incr(s, node), fuel - 1)

Chain(s, l) == Walk(s, begin(s, l), MaxNodes + 1)
\* operator* applied along the walk
Iterate(s, l) == LET c == Chain(s, l) IN [i \in 1..Len(c) |-> s.value[c[i]]]

\* The nodes no list reaches any more: allocated, never to be deleted.
Leaked(s) == Allocated(s) \ UNION {SetOf(Chain(s, l)) : l \in Constructed(s)}

GetSize(s, l) == s.size_[l]
IsEmpty(s, l) == s.size_[l] = 0

\* ------------------------------------------------------------ allocation
\* The allocator's answers to the next k calls of `new`: each call returns
\* the lowest free address (first fit) or throws std::bad_alloc, as it must
\* when no address is free.  A sequence shorter than k means the call after
\* its last address threw.
RECURSIVE AllocChoices(_, _)
AllocChoices(free, k) ==
    IF k = 0 \/ free = {} THEN {<<>>}
    ELSE LET a == CHOOSE x \in free : \A y \in free : x <= y
         IN {<<>>} \cup {<<a>> \o t : t \in AllocChoices(free \ {a}, k - 1)}

\* new Node(val, next) at address a
NewNode(s, a, val, next) ==
    [s EXCEPT !.value = (a :> val) @@ @,
              !.next_node = (a :> next) @@ @,
              !.allocs = @ \cup {a}]

\* delete node
DeleteNode(s, node) ==
    [s EXCEPT !.value = Drop(@, node),
              !.next_node = Drop(@, node),
              !.frees = @ \cup {node}]

\* ------------------------------------------------------------ operations
\* Mutant of PushFront: the new node is not linked to the old first node.
PushFront_DropsRest(s, l, val, addrs) ==
    IF addrs = <<>> THEN [s EXCEPT !.threw = TRUE]
    ELSE LET s1 == NewNode(s, addrs[1], val, Null)
         IN [s1 EXCEPT !.next_node[head_(l)] = addrs[1],
                       !.size_[l] = @ + 1]

\* Mutant of PushFront: the element is counted before the node is created.
PushFront_CountsFirst(s, l, val, addrs) ==
    IF addrs = <<>> THEN [s EXCEPT !.threw = TRUE, !.size_[l] = @ + 1]
    ELSE LET s1 == NewNode(s, addrs[1], val, s.next_node[head_(l)])
         IN [s1 EXCEPT !.next_node[head_(l)] = addrs[1],
                       !.size_[l] = @ + 1]

PushFront(s, l, val, addrs) ==
    IF addrs = <<>> THEN [s EXCEPT !.threw = TRUE]
    ELSE LET s1 == NewNode(s, addrs[1], val, s.next_node[head_(l)])
         IN [s1 EXCEPT !.next_node[head_(l)] = addrs[1],
                       !.size_[l] = @ + 1]

\* Mutant of InsertAfter: pos is not relinked to the new node when pos is an
\* element (the node is created and counted, but never reachable).
InsertAfter_NoRelink(s, l, pos, val, addrs) ==
    IF pos = cbefore_begin(l)
    THEN LET s1 == PushFront(s, l, val, addrs)
         IN IF s1.threw THEN s1
            ELSE [s1 EXCEPT !.size_[l] = @ + 1, !.ret = begin(s1, l)]
    ELSE IF addrs = <<>> THEN [s EXCEPT !.threw = TRUE]
         ELSE LET s1 == NewNode(s, addrs[1], val, s.next_node[pos])
              IN [s1 EXCEPT !.size_[l] = @ + 1,
                            !.ret = addrs[1]]

InsertAfter(s, l, pos, val, addrs) ==
    IF pos = cbefore_begin(l)
    THEN LET s1 == PushFront(s, l, val, addrs)
         IN IF s1.threw THEN s1
            ELSE [s1 EXCEPT !.size_[l] = @ + 1, !.ret = begin(s1, l)]
    ELSE IF addrs = <<>> THEN [s EXCEPT !.threw = TRUE]
         ELSE LET s1 == NewNode(s, addrs[1], val, s.next_node[pos])
              IN [s1 EXCEPT !.next_node[pos] = addrs[1],
                            !.size_[l] = @ + 1,
                            !.ret = addrs[1]]

\* Mutant of EraseAfter: returns pos instead of the node after the erased one.
EraseAfter_ReturnsPos(s, l, pos) ==
    LET to_delete_node == s.next_node[pos]
        s1 == [s EXCEPT !.next_node[pos] = s.next_node[to_delete_node]]
        s2 == DeleteNode(s1, to_delete_node)
    IN [s2 EXCEPT !.size_[l] = @ - 1, !.ret = pos]

EraseAfter(s, l, pos) ==
    LET to_delete_node == s.next_node[pos]
        s1 == [s EXCEPT !.next_node[pos] = s.next_node[to_delete_node]]
        s2 == DeleteNode(s1, to_delete_node)
    IN [s2 EXCEPT !.size_[l] = @ - 1, !.ret = s2.next_node[pos]]

\* while (head_.next_node) { ... } of Clear
RECURSIVE ClearLoop(_, _)
ClearLoop(s, l) ==
    IF s.next_node[head_(l)] # Null
    THEN LET tmp == s.next_node[s.next_node[head_(l)]]
             s1 == DeleteNode(s, s.next_node[head_(l)])
         IN ClearLoop([s1 EXCEPT !.next_node[head_(l)] = tmp], l)
    ELSE s

\* Mutant of PopFront: --size_ is forgotten.
PopFront_KeepsSize(s, l) ==
    IF ~(s.size_[l] > 0) THEN [s EXCEPT !.fault = "assert"]
    ELSE IF s.next_node[head_(l)] = Null THEN [s EXCEPT !.fault = "null_deref"]
    ELSE LET tmp == s.next_node[s.next_node[head_(l)]]
             s1 == DeleteNode(s, s.next_node[head_(l)])
         IN [s1 EXCEPT !.next_node[head_(l)] = tmp]

\* Mutant of PopFront: every node of the list is deleted, not only the first.
PopFront_FreesRest(s, l) ==
    IF ~(s.size_[l] > 0) THEN [s EXCEPT !.fault = "assert"]
    ELSE IF s.next_node[head_(l)] = Null THEN [s EXCEPT !.fault = "null_deref"]
    ELSE [ClearLoop(s, l) EXCEPT !.size_[l] = @ - 1]

PopFront(s, l) ==
    IF ~(s.size_[l] > 0) THEN [s EXCEPT !.fault = "assert"]
    ELSE IF s.next_node[head_(l)] = Null THEN [s EXCEPT !.fault = "null_deref"]
    ELSE LET tmp == s.next_node[s.next_node[head_(l)]]
             s1 == DeleteNode(s, s.next_node[head_(l)])
         IN [s1 EXCEPT !.next_node[head_(l)] = tmp, !.size_[l] = @ - 1]

\* Mutant of Clear: size_ is not reset.
Clear_KeepsSize(s, l) == ClearLoop(s, l)

Clear(s, l) == [ClearLoop(s, l) EXCEPT !.size_[l] = 0]

\* Mutant of swap: other.head_.next_node is not set, both lists end up with
\* other's chain.
swap_SharesChain(s, l, other) ==
    LET t_size == s.size_[l]
        s1 == [s EXCEPT !.size_[l] = s.size_[other]]
        s2 == [s1 EXCEPT !.next_node[head_(l)] = s1.next_node[head_(other)]]
    IN [s2 EXCEPT !.size_[other] = t_size]

\* Mutant of swap: the chains are exchanged, the sizes are not.
swap_KeepsSizes(s, l, other) ==
    LET nn == s.next_node[head_(l)]
        s2 == [s EXCEPT !.next_node[head_(l)] = s.next_node[head_(other)]]
    IN [s2 EXCEPT !.next_node[head_(other)] = nn]

swap(s, l, other) ==
    LET nn == s.next_node[head_(l)]
        t_size == s.size_[l]
        s1 == [s EXCEPT !.size_[l] = s.size_[other]]
        s2 == [s1 EXCEPT !.next_node[head_(l)] = s1.next_node[head_(other)]]
        s3 == [s2 EXCEPT !.size_[other] = t_size]
    IN [s3 EXCEPT !.next_node[head_(other)] = nn]

\* The members' default initialisers: head_ = {}, size_ = 0.
DefaultCtor(s, l) ==
    [s EXCEPT !.next_node = (head_(l) :> Null) @@ @,
              !.size_ = (l :> 0) @@ @]

\* What is left of an object whose constructor threw: nothing of the object
\* (its destructor never runs), everything it allocated.
Unwind(s, l) ==
    [s EXCEPT !.next_node = Drop(@, head_(l)), !.size_ = Drop(@, l)]

\* Mutant of MakeList's second loop: tmp is emptied from the bottom (a queue).
RECURSIVE MakeListLoop_Queue(_, _, _, _)
MakeListLoop_Queue(s, l, tmp, addrs) ==
    IF tmp = <<>> THEN s
    ELSE LET s1 == PushFront(s, l, tmp[1], addrs)
         IN IF s1.threw THEN s1
            ELSE MakeListLoop_Queue(s1, l, Tail(tmp), Tail(addrs))

\* while (!tmp.empty()) { PushFront(tmp.top()); tmp.pop(); }
RECURSIVE MakeListLoop(_, _, _, _)
MakeListLoop(s, l, tmp, addrs) ==
    IF tmp = <<>> THEN s
    ELSE LET s1 == PushFront(s, l, tmp[Len(tmp)], addrs)
         IN IF s1.threw THEN s1
            ELSE MakeListLoop(s1, l, SubSeq(tmp, 1, Len(tmp) - 1), Tail(addrs))

\* vals: the sequence [start, end) as the first loop pushes it on the stack
MakeList(s, l, vals, addrs) == MakeListLoop(s, l, vals, addrs)

InitListCtor(s, l, values, addrs) ==
    LET s1 == MakeList(DefaultCtor(s, l), l, values, addrs)
    IN IF s1.threw THEN Unwind(s1, l)
       ELSE [s1 EXCEPT !.size_[l] = Len(values)]

\* Mutant of the copy constructor: the head link is copied, not the nodes.
CopyCtor_Shallow(s, l, other, addrs) ==
    LET s0 == DefaultCtor(s, l)
    IN [s0 EXCEPT !.next_node[head_(l)] = s0.next_node[head_(other)],
                  !.size_[l] = s0.size_[other]]

CopyCtor(s, l, other, addrs) ==
    LET s0 == DefaultCtor(s, l)
        s1 == MakeList(s0, l, Iterate(s0, other), addrs)
    IN IF s1.threw THEN Unwind(s1, l)
       ELSE [s1 EXCEPT !.size_[l] = s1.size_[other]]

Dtor(s, l) ==
    LET s1 == Clear(s, l)
    IN [s1 EXCEPT !.next_node = Drop(@, head_(l)), !.size_ = Drop(@, l)]

\* Mutant of the self-assignment test: always taken for distinct.
Distinct_Always(l, rhs) == TRUE

\* this != &rhs
Distinct(l, rhs) == l # rhs

\* Mutant of operator=: the target is emptied before the copy is made.
Assign_ClearsFirst(s, l, rhs, addrs) ==
    IF Distinct(l, rhs)
    THEN LET s1 == CopyCtor(Clear(s, l), rhs_copy, rhs, addrs)
         IN IF s1.threw THEN s1
            ELSE Dtor(swap(s1, l, rhs_copy), rhs_copy)
    ELSE s

Assign(s, l, rhs, addrs) ==
    IF Distinct(l, rhs)
    THEN LET s1 == CopyCtor(s, rhs_copy, rhs, addrs)
         IN IF s1.threw THEN s1
            ELSE Dtor(swap(s1, l, rhs_copy), rhs_copy)
    ELSE s

\* ------------------------------------------------------------ comparisons
\* std::equal(first1, last1, first2, last2) on forward iterators: walks both
\* ranges together, false at the first unequal pair, true when both end
\* together.  last1 = last2 = end().
RECURSIVE equal(_, _, _)
equal(s, first1, first2) ==
    IF first1 # end /\ first2 # end
    THEN IF s.value[first1] # s.value[first2] THEN FALSE
         ELSE equal(s, Incr(s, first1), Incr(s, first2))
    ELSE first1 = end /\ first2 = end

\* Mutant of std::lexicographical_compare: a range that ends together with
\* the other one counts as less.
RECURSIVE lexicographical_compare_OrEqual(_, _, _)
lexicographical_compare_OrEqual(s, first1, first2) ==
    IF first1 # end /\ first2 # end
    THEN IF s.value[first1] < s.value[first2] THEN TRUE
         ELSE IF s.value[first2] < s.value[first1] THEN FALSE
         ELSE lexicographical_compare_OrEqual(s, Incr(s, first1), Incr(s, first2))
    ELSE first1 = end

\* std::lexicographical_compare(first1, last1, first2, last2)
RECURSIVE lexicographical_compare(_, _, _)
lexicographical_compare(s, first1, first2) ==
    IF first1 # end /\ first2 # end
    THEN IF s.value[first1] < s.value[first2] THEN TRUE
         ELSE IF s.value[first2] < s.value[first1] THEN FALSE
         ELSE lexicographical_compare(s, Incr(s, first1), Incr(s, first2))
    ELSE first1 = end /\ first2 # end

\* operator==, !=, <, >, <=, >=
Equals(s, lhs, rhs) == equal(s, begin(s, lhs), begin(s, rhs))
NotEquals(s, lhs, rhs) == ~Equals(s, lhs, rhs)
Less(s, lhs, rhs) == lexicographical_compare(s, begin(s, lhs), begin(s, rhs))
Greater(s, lhs, rhs) == Less(s, rhs, lhs)
LessEq(s, lhs, rhs) == Less(s, lhs, rhs) \/ Equals(s, lhs, rhs)
GreaterEq(s, lhs, rhs) == Greater(s, lhs, rhs) \/ Equals(s, lhs, rhs)

\* The comparison operator named op
Compare(s, op, lhs, rhs) ==
    CASE op = "==" -> Equals(s, lhs, rhs)
      [] op = "!=" -> NotEquals(s, lhs, rhs)
      [] op = "<" -> Less(s, lhs, rhs)
      [] op = ">" -> Greater(s, lhs, rhs)
      [] op = "<=" -> LessEq(s, lhs, rhs)
      [] op = ">=" -> GreaterEq(s, lhs, rhs)

\* --------------------------------------------------------------- actions
\* Sequences over S of length at most n
RECURSIVE SeqsUpTo(_, _)
SeqsUpTo(S, n) ==
    IF n = 0 THEN {<<>>}
    ELSE LET shorter == SeqsUpTo(S, n - 1)
         IN shorter \cup {Append(q, x) : q \in {r \in shorter : Len(r) = n - 1}, x \in S}

\* The history when the last operation is not one the specification tracks.
Untracked ==
    [op |-> "", l |-> "", o |-> "", pos |-> Null, val |-> 0,
     ret |-> Null, threw |-> FALSE, log |-> <<>>, res |-> FALSE]

\* last' after operation `name` with outcome r.  A specification tracks a set
\* T of cases; the call is recorded when it is an instance of one of them.
\* log: the values of the PushFront calls made in a row on a list that was
\* empty before the first of them.  res: what a comparison returned.
Op(T, cases, name, l, o, pos, val, r, log) ==
    IF cases \cap T # {}
    THEN [op |-> name, l |-> l, o |-> o, pos |-> pos, val |-> val,
          ret |-> r.ret, threw |-> r.threw, log |-> log, res |-> FALSE]
    ELSE Untracked

\* l is the only list of the program.
Alone(l) == Constructed(State) = {l}

\* The allocator's answers under T: with "bad_alloc" in T any `new` may throw;
\* with "exhausted" the first `new` of the call may; otherwise the heap
\* satisfies every request (an operation the bounded heap cannot satisfy is
\* then not taken).
Alloc(T, free, k) ==
    IF "bad_alloc" \in T THEN AllocChoices(free, k)
    ELSE {q \in AllocChoices(free, k) :
            Len(q) = k \/ ("exhausted" \in T /\ q = <<>>)}

\* T for a call whose failure is the case `tag`: when T tracks it, the call
\* may find the heap exhausted (its first `new` throws).
Failing(T, tag) == IF tag \in T THEN T \cup {"exhausted"} ELSE T

\* The memory after the call becomes the current memory; a process that
\* died (failed assert, null dereference) has no memory left.
Install(r) ==
    /\ next_node' = IF r.fault = "none" THEN r.next_node ELSE <<>>
    /\ value' = IF r.fault = "none" THEN r.value ELSE <<>>
    /\ size_' = IF r.fault = "none" THEN r.size_ ELSE <<>>
    /\ fault' = r.fault

Init ==
    /\ next_node = <<>>
    /\ value = <<>>
    /\ size_ = <<>>
    /\ fault = "none"
    /\ last = Untracked

\* Positions of list l a caller can hold: before_begin() and every element.
Positions(s, l) ==
    LET c == Chain(s, l) IN {before_begin(l)} \cup {c[i] : i \in 1..Len(c)}

DoDefaultCtor(T) ==
    \E l \in Lists \ Constructed(State) :
        /\ fault = "none"
        /\ LET r == DefaultCtor(State, l)
           IN /\ Install(r)
              /\ last' = Op(T, {}, "DefaultCtor", l, "", Null, 0, r, <<>>)

DoInitListCtor(T) ==
    \E l \in Lists \ Constructed(State), values \in SeqsUpTo(Values, MaxInit) :
      \E addrs \in Alloc(T, FreeAddrs(State), Len(values)) :
        /\ fault = "none"
        /\ LET r == InitListCtor(State, l, values, addrs)
               cases == IF /\ Constructed(State) = {}
                           /\ ~r.threw
                           /\ Len(values) = 2
                           /\ values[1] # values[2]
                        THEN {"InitListCtor.two"} ELSE {}
           IN /\ Install(r)
              /\ last' = Op(T, cases, "InitListCtor", l, "", Null, Len(values), r, values)

DoCopyCtor(T) ==
    \E l \in Lists \ Constructed(State), other \in Constructed(State) :
      \E addrs \in Alloc(T, FreeAddrs(State), Len(Chain(State, other))) :
        /\ fault = "none"
        /\ LET r == CopyCtor(State, l, other, addrs)
               cases == IF Len(Chain(State, other)) >= 2 /\ ~r.threw
                        THEN {"CopyCtor.two"} ELSE {}
           IN /\ Install(r)
              /\ last' = Op(T, cases, "CopyCtor", l, other, Null, 0, r, <<>>)

DoDtor(T) ==
    \E l \in Constructed(State) :
        /\ fault = "none"
        /\ LET r == Dtor(State, l)
           IN /\ Install(r)
              /\ last' = Op(T, {}, "Dtor", l, "", Null, 0, r, <<>>)

DoPushFront(T) ==
    \E l \in Constructed(State), val \in Values :
      \E addrs \in Alloc(T, FreeAddrs(State), 1) :
        /\ fault = "none"
        /\ size_[l] < MaxSize
        /\ LET r == PushFront(State, l, val, addrs)
               streak == last.op = "PushFront" /\ last.l = l
               cases == IF /\ ~r.threw
                           /\ Alone(l)
                           /\ streak \/ (IsEmpty(State, l) /\ begin(State, l) = end)
                        THEN {"PushFront.streak"} ELSE {}
           IN /\ Install(r)
              /\ last' = Op(T, cases, "PushFront", l, "", Null, val, r,
                            IF streak THEN Append(last.log, val) ELSE <<val>>)

DoPopFront(T) ==
    \E l \in Constructed(State) :
        /\ fault = "none"
        /\ LET r == PopFront(State, l)
               c == Chain(State, l)
               cases == IF Alone(l) /\ r.fault = "none" /\ Len(c) >= 2
                        THEN {"PopFront.survivor"} ELSE {}
           IN /\ Install(r)
              \* pos, val: an iterator to the second element and what it yields
              /\ last' = Op(T, cases, "PopFront", l, "",
                            IF Len(c) >= 2 THEN c[2] ELSE Null,
                            IF Len(c) >= 2 THEN value[c[2]] ELSE 0, r, <<>>)

DoInsertAfter(T) ==
    \E l \in Constructed(State), val \in Values :
      \E pos \in Positions(State, l),
         addrs \in Alloc(Failing(T, "Insert.threw"), FreeAddrs(State), 1) :
        /\ fault = "none"
        /\ size_[l] + (IF pos = cbefore_begin(l) THEN 2 ELSE 1) <= MaxSize
        /\ LET r == InsertAfter(State, l, pos, val, addrs)
               cases ==
                   (IF /\ Alone(l)
                       /\ pos # cbefore_begin(l)
                       /\ next_node[pos] # Null
                       /\ ~r.threw
                    THEN {"InsertAfter.between"} ELSE {})
                   \cup (IF Alone(l) /\ r.threw /\ begin(State, l) # end
                         THEN {"Insert.threw"} ELSE {})
           IN /\ Install(r)
              /\ last' = Op(T, cases, "InsertAfter", l, "", pos, val, r, <<>>)

DoEraseAfter(T) ==
    \E l \in Constructed(State) :
      \E pos \in Positions(State, l) :
        /\ fault = "none"
        /\ next_node[pos] # Null
        /\ LET r == EraseAfter(State, l, pos)
               cases ==
                   (IF Alone(l) /\ pos = before_begin(l) /\ r.ret # end
                    THEN {"EraseAfter.front"} ELSE {})
                   \cup (IF Alone(l) /\ pos # before_begin(l) /\ r.ret = end
                         THEN {"EraseAfter.last"} ELSE {})
                   \cup (IF last.op = "InsertAfter" /\ last.l = l /\ last.pos = pos
                         THEN {"EraseAfter.undo"} ELSE {})
           IN /\ Install(r)
              /\ last' = Op(T, cases, "EraseAfter", l, last.op, pos, 0, r, <<>>)

DoClear(T) ==
    \E l \in Constructed(State) :
        /\ fault = "none"
        /\ LET r == Clear(State, l)
               cases == IF Len(Chain(State, l)) >= 2 THEN {"Clear.many"} ELSE {}
           IN /\ Install(r)
              /\ last' = Op(T, cases, "Clear", l, "", Null, Len(Chain(State, l)), r, <<>>)

DoSwap(T) ==
    \E l \in Constructed(State), other \in Constructed(State) :
        /\ fault = "none"
        /\ LET r == swap(State, l, other)
               cases == IF /\ l # other
                           /\ Len(Chain(State, l)) = 1
                           /\ Len(Chain(State, other)) = 2
                           /\ size_[l] = 1
                           /\ size_[other] = 2
                        THEN {"swap.uneven"} ELSE {}
           IN /\ Install(r)
              /\ last' = Op(T, cases, "swap", l, other, Null, 0, r, <<>>)

DoAssign(T) ==
    \E l \in Constructed(State), rhs \in Constructed(State) :
      \E addrs \in Alloc(Failing(T, "Assign.threw"), FreeAddrs(State),
                           IF Distinct(l, rhs) THEN Len(Chain(State, rhs)) ELSE 0) :
        /\ fault = "none"
        /\ LET r == Assign(State, l, rhs, addrs)
               cases ==
                   (IF Alone(l) /\ l = rhs /\ Len(Chain(State, l)) >= 2
                    THEN {"Assign.self"} ELSE {})
                   \cup (IF /\ r.threw
                            /\ Len(Chain(State, l)) = 2
                            /\ Len(Chain(State, rhs)) = 1
                         THEN {"Assign.threw"} ELSE {})
           IN /\ Install(r)
              /\ last' = Op(T, cases, "Assign", l, rhs, Null, 0, r, <<>>)

\* q is a proper prefix of r
StrictPrefix(q, r) == Len(q) < Len(r) /\ SubSeq(r, 1, Len(q)) = q

\* lhs op rhs for a comparison operator op: a query, the memory stays as it
\* is.  Only the history can change, so a comparison whose case is not
\* tracked is a stuttering step, which every specification allows already.
DoCompare(T) ==
    \E op \in {"==", "!=", "<", ">", "<=", ">="} :
      \E lhs \in Constructed(State), rhs \in Constructed(State) :
        /\ fault = "none"
        /\ UNCHANGED <<next_node, value, size_, fault>>
        /\ LET cases == IF /\ op = "<"
                           /\ Len(Iterate(State, lhs)) = 1
                           /\ Len(Iterate(State, rhs)) = 2
                           /\ StrictPrefix(Iterate(State, lhs), Iterate(State, rhs))
                        THEN {"Less.prefix"} ELSE {}
               h == Op(T, cases, op, lhs, rhs, Null, 0, State, <<>>)
           IN /\ cases \cap T # {}
              /\ last' = [h EXCEPT !.res = Compare(State, op, lhs, rhs)]

\* Every public operation; T names the cases whose history is kept and, with
\* "bad_alloc", lets allocations fail.
NextT(T) ==
    \/ DoDefaultCtor(T)
    \/ DoInitListCtor(T)
    \/ DoCopyCtor(T)
    \/ DoDtor(T)
    \/ DoPushFront(T)
    \/ DoPopFront(T)
    \/ DoInsertAfter(T)
    \/ DoEraseAfter(T)
    \/ DoClear(T)
    \/ DoSwap(T)
    \/ DoAssign(T)

\* The program with allocation failures and no history.
Next == NextT({"bad_alloc"})
Spec == Init /\ [][Next]_vars

\* The program with the history of some cases kept.
NextEraseFront == NextT({"EraseAfter.front"})
SpecEraseFront == Init /\ [][NextEraseFront]_vars

NextPush == NextT({"PushFront.streak"})
SpecPush == Init /\ [][NextPush]_vars

NextUndo == NextT({"InsertAfter.between", "EraseAfter.undo"})
SpecUndo == Init /\ [][NextUndo]_vars

NextEraseLast == NextT({"EraseAfter.last"})
SpecEraseLast == Init /\ [][NextEraseLast]_vars

NextCopy == NextT({"CopyCtor.two"})
SpecCopy == Init /\ [][NextCopy]_vars

NextSelfAssign == NextT({"Assign.self"})
SpecSelfAssign == Init /\ [][NextSelfAssign]_vars

NextSwap == NextT({"swap.uneven"})
SpecSwap == Init /\ [][NextSwap]_vars

NextClear == NextT({"Clear.many"})
SpecClear == Init /\ [][NextClear]_vars

NextInsertFails == NextT({"Insert.threw"})
SpecInsertFails == Init /\ [][NextInsertFails]_vars

NextAssignFails == NextT({"Assign.threw"})
SpecAssignFails == Init /\ [][NextAssignFails]_vars

NextIterators == NextT({"PopFront.survivor"})
SpecIterators == Init /\ [][NextIterators]_vars

NextChains == NextT({"CopyCtor.two"})
SpecChains == Init /\ [][NextChains]_vars

NextInitList == NextT({"InitListCtor.two"})
SpecInitList == Init /\ [][NextInitList]_vars

\* The program with its comparisons (queries: they leave the memory as it is
\* and are left out of the specifications that do not observe them).
NextCompare == NextT({"Less.prefix"}) \/ DoCompare({"Less.prefix"})
SpecCompare == Init /\ [][NextCompare]_vars

\* ------------------------------------------------------------- sanity
TypeOK ==
    /\ DOMAIN size_ \subseteq Lists
    /\ DOMAIN value \subseteq Nodes
    /\ DOMAIN next_node = DOMAIN value \cup {head_(l) : l \in DOMAIN size_}
    /\ \A n \in DOMAIN value : value[n] \in Values
    /\ \A n \in DOMAIN next_node : next_node[n] \in DOMAIN value \cup {Null}
    /\ \A l \in DOMAIN size_ : size_[l] \in 0..MaxSize
    /\ fault \in {"none", "assert", "null_deref"}
    /\ last.op \in {"", "CopyCtor", "PushFront", "InsertAfter", "EraseAfter",
                    "Clear", "swap", "Assign", "InitListCtor", "PopFront",
                    "==", "!=", "<", ">", "<=", ">="}
    /\ last.res \in BOOLEAN

\* ------------------------------------------------------------ observers
\* What a caller sees of list l: GetSize() and the values iteration yields.
Obs(s, l) == <<GetSize(s, l), Iterate(s, l)>>

\* The program's memory proper, without the outcome fields.
Memory(s) == <<s.next_node, s.value, s.size_>>

Reverse(q) == [i \in 1..Len(q) |-> q[Len(q) + 1 - i]]

\* q without its k-th element
Without(q, k) == SubSeq(q, 1, k - 1) \o SubSeq(q, k + 1, Len(q))

\* q with x put right after its k-th element (k = 0: in front)
WithAfter(q, k, x) == SubSeq(q, 1, k) \o <<x>> \o SubSeq(q, k + 1, Len(q))

\* The position of node n in the walk from before_begin(): 0 for the sentinel.
IndexOf(s, l, n) ==
    IF n = before_begin(l) THEN 0
    ELSE CHOOSE i \in 1..Len(Chain(s, l)) : Chain(s, l)[i] = n

\* Memory m agrees with memory s on SingleLinkedList o and on the nodes ns:
\* the same size_, the same links out of head_ and out of every node, the
\* same values.
SameAt(s, m, o, ns) ==
    /\ o \in DOMAIN m.size_
    /\ m.size_[o] = s.size_[o]
    /\ \A n \in ns \cup {head_(o)} :
         n \in DOMAIN m.next_node /\ m.next_node[n] = s.next_node[n]
    /\ \A n \in ns : n \in DOMAIN m.value /\ m.value[n] = s.value[n]

\* List o is in memory m what it was in memory s: the same chain of nodes
\* with the same values, the same size_.
Untouched(s, m, o) == SameAt(s, m, o, SetOf(Chain(s, o)))

\* No call of a single-list mutator on l in memory s, made by a caller who
\* respects the preconditions (allocation failures included), changes list o.
Independent(s, l, o) ==
    LET allocs == AllocChoices(FreeAddrs(s), 1)
        ps == Positions(s, l)
        ns == SetOf(Chain(s, o))
    IN /\ \A v \in Values, a \in allocs :
            /\ SameAt(s, PushFront(s, l, v, a), o, ns)
            /\ \A pos \in ps : SameAt(s, InsertAfter(s, l, pos, v, a), o, ns)
       /\ \A pos \in ps :
            s.next_node[pos] # Null => SameAt(s, EraseAfter(s, l, pos), o, ns)
       /\ SameAt(s, PopFront(s, l), o, ns)
       /\ SameAt(s, Clear(s, l), o, ns)

\* ---------------------------------------------------------------- claims
\* The allocator's answers when all k calls of `new` succeed.
AllSucceed(s, k) == {q \in AllocChoices(FreeAddrs(s), k) : Len(q) = k}


\* C1: in every reachable state GetSize() of each list equals the number of
\* real nodes reachable from its head_.next_node.
C1_SizeEqualsNodeCount ==
    \A l \in Constructed(State) : GetSize(State, l) = Len(Chain(State, l))

\* C2: from every state and for every value, InsertAfter(before_begin(), v)
\* and PushFront(v) leave the same GetSize() and the same iteration order.
C2_InsertAtFrontIsPushFront ==
    \A l \in Constructed(State), v \in Values :
      \A a \in AllocChoices(FreeAddrs(State), 1) :
        Obs(InsertAfter(State, l, cbefore_begin(l), v, a), l)
            = Obs(PushFront(State, l, v, a), l)

\* C3: while the process runs, on a list with a first element, EraseAfter(before_begin()) and
\* PopFront() leave the same memory: both free exactly the first node, the
\* iteration loses its first value and GetSize() drops by one.
C3_EraseAtFrontIsPopFront ==
    \A l \in Constructed(State) :
        (fault = "none" /\ begin(State, l) # end) =>
            LET e == EraseAfter(State, l, before_begin(l))
                p == PopFront(State, l)
            IN /\ p.fault = "none"
               /\ Memory(e) = Memory(p)
               /\ Obs(e, l) = Obs(p, l)
               /\ p.frees = {begin(State, l)}
               /\ e.frees = p.frees
               /\ Iterate(p, l) = Tail(Iterate(State, l))
               /\ GetSize(p, l) = GetSize(State, l) - 1

\* EraseAfter(before_begin()) has run on a list of at least two elements.
C3_Witness ==
    /\ last.op = "EraseAfter"
    /\ last.pos = before_begin(last.l)
    /\ last.ret # end
    /\ begin(State, last.l) = last.ret

\* PushFront of the values vs, one after the other, every `new` succeeding.
RECURSIVE PushAll(_, _, _)
PushAll(s, l, vs) ==
    IF vs = <<>> THEN s
    ELSE PushAll(PushFront(s, l, vs[1], CHOOSE a \in AllSucceed(s, 1) : TRUE),
                 l, Tail(vs))

\* C4: n PushFront calls on an empty list leave GetSize() = n and an iteration
\* that yields the pushed values in reverse push order: for every empty list
\* of every reachable state and every sequence of values the heap has room
\* for, and for the pushes the program made in a row on an empty list.
C4_PushFrontReversesOrder ==
    /\ \A l \in Constructed(State) :
         (IsEmpty(State, l) /\ begin(State, l) = end) =>
            \A vs \in SeqsUpTo(Values, Cardinality(FreeAddrs(State))) :
                LET p == PushAll(State, l, vs)
                IN /\ ~p.threw
                   /\ GetSize(p, l) = Len(vs)
                   /\ Iterate(p, l) = Reverse(vs)
                   /\ Len(Chain(p, l)) = Len(vs)
    /\ last.op = "PushFront" =>
         /\ GetSize(State, last.l) = Len(last.log)
         /\ Iterate(State, last.l) = Reverse(last.log)

\* Three pushes in a row on an empty list, of values that are not all the same.
C4_Witness ==
    /\ last.op = "PushFront"
    /\ Len(last.log) = 3
    /\ last.log[1] # last.log[3]
    /\ Iterate(State, last.l) = Reverse(last.log)

\* C5: InsertAfter(pos, v) at an element pos puts v right after pos's
\* element, raises GetSize() by one and returns the new node; EraseAfter(pos)
\* then restores the memory the list had, size and order.
C5_InsertAfterThenEraseAfter ==
    \A l \in Constructed(State), v \in Values :
      \A i \in 1..Len(Chain(State, l)) :
        \A a \in {q \in AllocChoices(FreeAddrs(State), 1) : q # <<>>} :
          LET pos == Chain(State, l)[i]
              r == InsertAfter(State, l, pos, v, a)
              e == EraseAfter(r, l, pos)
          IN fault = "none" =>
               /\ ~r.threw
               /\ Iterate(r, l) = WithAfter(Iterate(State, l), i, v)
               /\ Chain(r, l) = WithAfter(Chain(State, l), i, r.ret)
               /\ GetSize(r, l) = GetSize(State, l) + 1
               /\ r.ret \notin Allocated(State)
               /\ r.allocs = {r.ret}
               /\ r.value[r.ret] = v
               /\ r.next_node[pos] = r.ret
               /\ Memory(e) = Memory(State)
               /\ Iterate(e, l) = Iterate(State, l)
               /\ GetSize(e, l) = GetSize(State, l)
               /\ e.ret = State.next_node[pos]

\* InsertAfter at the first of at least two elements, undone by EraseAfter at
\* the same position.
C5_Witness ==
    /\ last.op = "EraseAfter"
    /\ last.o = "InsertAfter"
    /\ last.pos = begin(State, last.l)
    /\ last.ret # end
    /\ Len(Chain(State, last.l)) >= 2

\* C6: EraseAfter(pos), pos the sentinel or an element with a successor, frees
\* exactly the node after pos, keeps the other elements in order, lowers
\* GetSize() by one and returns the erased node's successor (end() if none).
C6_EraseAfterRemovesOne ==
    \A l \in Constructed(State) :
      \A pos \in {q \in Positions(State, l) : next_node[q] # Null} :
        LET victim == next_node[pos]
            k == IndexOf(State, l, pos) + 1
            e == EraseAfter(State, l, pos)
        IN fault = "none" =>
             /\ e.frees = {victim}
             /\ e.allocs = {}
             /\ Allocated(e) = Allocated(State) \ {victim}
             /\ Chain(e, l) = Without(Chain(State, l), k)
             /\ Iterate(e, l) = Without(Iterate(State, l), k)
             /\ \A n \in Allocated(e) : e.value[n] = value[n]
             /\ GetSize(e, l) = GetSize(State, l) - 1
             /\ e.ret = next_node[victim]
             /\ (k = Len(Chain(State, l))) = (e.ret = end)
             /\ \A o \in Constructed(State) \ {l} :
                    Chain(e, o) = Chain(State, o) /\ Obs(e, o) = Obs(State, o)

\* EraseAfter at an element has removed the last element of a list.
C6_Witness ==
    /\ last.op = "EraseAfter"
    /\ last.pos # before_begin(last.l)
    /\ last.ret = end
    /\ begin(State, last.l) # end

\* List o after the call that produced m from s: same nodes, same order,
\* same values, same GetSize().
\* c is memory s after list l was made a copy of list o.
CopyPost(s, c, l, o) ==
    /\ ~c.threw
    /\ l \in Constructed(c)
    /\ Iterate(c, l) = Iterate(s, o)
    /\ GetSize(c, l) = GetSize(s, o)
    /\ Len(Chain(c, l)) = Len(Chain(s, o))
    /\ SetOf(Chain(c, l)) \cap SetOf(Chain(c, o)) = {}
    /\ SetOf(Chain(c, l)) = c.allocs
    /\ c.allocs \cap Allocated(s) = {}
    /\ Untouched(s, c, o)

\* C7: a copy-constructed or copy-assigned list (a = b, a and b distinct) has
\* the source's elements, order and GetSize() in nodes of its own, the source
\* is unchanged, and no mutation of one list changes the other (the states
\* after a copy are reachable states, so the last conjunct covers them).
C7_CopyIsDeepAndIndependent ==
    fault = "none" =>
      /\ \A o \in Constructed(State), l \in Lists \ Constructed(State) :
           \A a \in AllSucceed(State, Len(Chain(State, o))) :
             CopyPost(State, CopyCtor(State, l, o, a), l, o)
      /\ \A o \in Constructed(State) : \A l \in Constructed(State) \ {o} :
           \A a \in AllSucceed(State, Len(Chain(State, o))) :
             /\ CopyPost(State, Assign(State, l, o, a), l, o)
             /\ Assign(State, l, o, a).frees = SetOf(Chain(State, l))
      /\ \A l \in Constructed(State) : \A o \in Constructed(State) \ {l} :
           Independent(State, l, o)

\* The copy constructor has copied a list of two different values.
C7_Witness ==
    /\ last.op = "CopyCtor"
    /\ ~last.threw
    /\ Len(Iterate(State, last.l)) = 2
    /\ Iterate(State, last.l)[1] # Iterate(State, last.l)[2]
    /\ Iterate(State, last.o) = Iterate(State, last.l)

\* C8: lst = lst leaves GetSize(), the elements and every node as they were
\* and neither allocates nor frees.
C8_SelfAssignmentIsNoOp ==
    \A l \in Constructed(State) :
      \A a \in AllocChoices(FreeAddrs(State), Len(Chain(State, l))) :
        LET r == Assign(State, l, l, a)
        IN /\ Memory(r) = Memory(State)
           /\ Chain(r, l) = Chain(State, l)
           /\ Obs(r, l) = Obs(State, l)
           /\ r.allocs = {}
           /\ r.frees = {}
           /\ ~r.threw

\* A list with elements has been assigned to itself.
C8_Witness ==
    /\ last.op = "Assign"
    /\ last.l = last.o
    /\ Len(Chain(State, last.l)) >= 2

\* C9: swap exchanges the sizes and the node chains of the two lists and
\* allocates and frees nothing; afterwards no mutation of one list changes the
\* other.  The state after a swap, and after every later mutation, is a
\* reachable state, so the independence is stated for every reachable state.
C9_SwapExchangesChains ==
    /\ \A l \in Constructed(State), o \in Constructed(State) :
         LET w == swap(State, l, o)
         IN /\ GetSize(w, l) = GetSize(State, o)
            /\ GetSize(w, o) = GetSize(State, l)
            /\ Chain(w, l) = Chain(State, o)
            /\ Chain(w, o) = Chain(State, l)
            /\ Iterate(w, l) = Iterate(State, o)
            /\ Iterate(w, o) = Iterate(State, l)
            /\ w.allocs = {}
            /\ w.frees = {}
            /\ w.value = value
    /\ fault = "none" =>
         \A o \in Constructed(State) : \A l \in Constructed(State) \ {o} :
             Independent(State, l, o)

\* Two lists of different lengths, both with elements, have been swapped.
C9_Witness ==
    /\ last.op = "swap"
    /\ last.l # last.o
    /\ Len(Chain(State, last.l)) >= 1
    /\ Len(Chain(State, last.o)) >= 1
    /\ GetSize(State, last.l) # GetSize(State, last.o)

\* C10: after Clear() the list has IsEmpty(), GetSize() = 0 and
\* begin() = end(), and every node it owned has been freed.
C10_ClearEmptiesAndFrees ==
    \A l \in Constructed(State) :
        LET c == Clear(State, l)
        IN /\ IsEmpty(c, l)
           /\ GetSize(c, l) = 0
           /\ begin(c, l) = end
           /\ c.frees = SetOf(Chain(State, l))
           /\ Allocated(c) = Allocated(State) \ SetOf(Chain(State, l))
           /\ c.allocs = {}

\* Clear() has run on a list of at least two nodes (last.val: their number).
C10_Witness ==
    /\ last.op = "Clear"
    /\ last.val >= 2
    /\ IsEmpty(State, last.l)
    /\ begin(State, last.l) = end

\* The lexicographic order of two sequences over the ordered element type:
\* at the first position where they differ the smaller element decides, and
\* a proper prefix comes first.
LexLess(q, r) ==
    \E k \in 0..Len(q) :
        /\ k <= Len(r)
        /\ SubSeq(q, 1, k) = SubSeq(r, 1, k)
        /\ \/ k = Len(q) /\ k < Len(r)
           \/ k < Len(q) /\ k < Len(r) /\ q[k + 1] < r[k + 1]

\* C11: operator== is true exactly for lists of the same GetSize() and the
\* same elements in the same order; it is reflexive and symmetric, and
\* operator!= is its negation.
C11_EqualsIffSameSizeAndElements ==
    \A lhs \in Constructed(State), rhs \in Constructed(State) :
        /\ Equals(State, lhs, rhs)
             = (GetSize(State, lhs) = GetSize(State, rhs)
                /\ Iterate(State, lhs) = Iterate(State, rhs))
        /\ Equals(State, lhs, lhs)
        /\ Equals(State, lhs, rhs) = Equals(State, rhs, lhs)
        /\ NotEquals(State, lhs, rhs) = ~Equals(State, lhs, rhs)

\* C12: operator< is the lexicographic order of the element sequences (a
\* proper prefix first, the empty list before every list with elements, no
\* list before itself), and a > b iff b < a, a <= b iff not b < a,
\* a >= b iff not a < b.
C12_LessIsLexicographic ==
    \A lhs \in Constructed(State), rhs \in Constructed(State) :
        LET q == Iterate(State, lhs)
            r == Iterate(State, rhs)
        IN /\ Less(State, lhs, rhs) = LexLess(q, r)
           /\ StrictPrefix(q, r) => Less(State, lhs, rhs)
           /\ (q = <<>> /\ r # <<>>) => Less(State, lhs, rhs)
           /\ ~Less(State, lhs, lhs)
           /\ Greater(State, lhs, rhs) = Less(State, rhs, lhs)
           /\ LessEq(State, lhs, rhs) = ~Less(State, rhs, lhs)
           /\ GreaterEq(State, lhs, rhs) = ~Less(State, lhs, rhs)
           /\ (last.op \in {"==", "!=", "<", ">", "<=", ">="}
               /\ last.l = lhs /\ last.o = rhs)
                 => last.res = Compare(State, last.op, lhs, rhs)

\* a < b has been evaluated, and was true, for a list a with elements that
\* is a proper prefix of b.
C12_Witness ==
    /\ last.op = "<"
    /\ last.res
    /\ Iterate(State, last.l) # <<>>
    /\ StrictPrefix(Iterate(State, last.l), Iterate(State, last.o))

\* C13: when the node cannot be created, PushFront(v) and InsertAfter(pos, v)
\* (pos = before_begin() or an element) throw and leave the memory as it was:
\* same chain, same elements, same GetSize(), nothing allocated or freed.
C13_FailedInsertionChangesNothing ==
    \A l \in Constructed(State), v \in Values :
        LET p == PushFront(State, l, v, <<>>)
        IN /\ p.threw
           /\ Memory(p) = Memory(State)
           /\ Chain(p, l) = Chain(State, l)
           /\ Obs(p, l) = Obs(State, l)
           /\ p.allocs = {} /\ p.frees = {}
           /\ \A pos \in Positions(State, l) :
                LET r == InsertAfter(State, l, pos, v, <<>>)
                IN /\ r.threw
                   /\ Memory(r) = Memory(State)
                   /\ Chain(r, l) = Chain(State, l)
                   /\ Obs(r, l) = Obs(State, l)
                   /\ r.allocs = {} /\ r.frees = {}

\* InsertAfter(before_begin(), v) on a list with elements has thrown.
C13_Witness ==
    /\ last.op = "InsertAfter"
    /\ last.threw
    /\ last.pos = before_begin(last.l)
    /\ begin(State, last.l) # end

\* C14: a = b (a and b distinct) whose copy fails at any allocation throws and
\* leaves a and b as they were (same nodes, order, values, GetSize()), frees
\* nothing and leaves no temporary behind; whatever the allocator does, a is
\* afterwards either its old self or the full copy of b.
C14_FailedAssignmentChangesNothing ==
    fault = "none" =>
      \A rhs \in Constructed(State) : \A l \in Constructed(State) \ {rhs} :
        \A a \in AllocChoices(FreeAddrs(State), Len(Chain(State, rhs))) :
          LET r == Assign(State, l, rhs, a)
          IN /\ r.threw = (Len(a) < Len(Chain(State, rhs)))
             /\ r.threw =>
                  /\ Untouched(State, r, l)
                  /\ Untouched(State, r, rhs)
                  /\ Chain(r, l) = Chain(State, l)
                  /\ Obs(r, l) = Obs(State, l)
                  /\ Obs(r, rhs) = Obs(State, rhs)
                  /\ r.frees = {}
                  /\ Constructed(r) = Constructed(State)
             /\ ~r.threw =>
                  /\ Iterate(r, l) = Iterate(State, rhs)
                  /\ GetSize(r, l) = GetSize(State, rhs)

\* a = b has thrown for a list a of two elements and a list b of one.
C14_Witness ==
    /\ last.op = "Assign"
    /\ last.threw
    /\ last.l # last.o
    /\ Len(Chain(State, last.l)) = 2
    /\ Len(Chain(State, last.o)) = 1

\* The call that turned memory s into memory m destroyed the nodes `gone` and
\* no other: every other node is still allocated and holds the value it held.
OnlyFrees(s, m, gone) ==
    /\ m.frees = gone
    /\ Allocated(m) = (Allocated(s) \cup m.allocs) \ gone
    /\ \A n \in Allocated(s) \ gone : m.value[n] = s.value[n]

\* C15: an iterator to a node keeps referring to the same live node with the
\* same value across PushFront, InsertAfter, PopFront and EraseAfter unless
\* the call destroys that very node, and across swap, after which the node is
\* in the other list; PopFront, EraseAfter and Clear free the node(s) they
\* remove and no other.
C15_IteratorsStayValid ==
    fault = "none" =>
      /\ \A l \in Constructed(State) :
           /\ \A v \in Values, a \in AllocChoices(FreeAddrs(State), 1) :
                /\ OnlyFrees(State, PushFront(State, l, v, a), {})
                /\ \A pos \in Positions(State, l) :
                     OnlyFrees(State, InsertAfter(State, l, pos, v, a), {})
           /\ \A pos \in Positions(State, l) :
                next_node[pos] # Null =>
                    OnlyFrees(State, EraseAfter(State, l, pos), {next_node[pos]})
           /\ begin(State, l) # end =>
                OnlyFrees(State, PopFront(State, l), {begin(State, l)})
           /\ OnlyFrees(State, Clear(State, l), SetOf(Chain(State, l)))
           /\ \A o \in Constructed(State) :
                LET w == swap(State, l, o)
                IN /\ w.frees = {}
                   /\ w.value = value
                   /\ \A n \in Allocated(State) : w.next_node[n] = next_node[n]
                   /\ begin(w, o) = begin(State, l)
                   /\ begin(w, l) = begin(State, o)
      /\ (last.op = "PopFront" /\ last.pos # Null) =>
           /\ last.pos \in Allocated(State)
           /\ value[last.pos] = last.val
           /\ begin(State, last.l) = last.pos

\* PopFront has run while an iterator referred to the second element: the
\* iterator's node is now the first, alive, with the value it had.
C15_Witness ==
    /\ last.op = "PopFront"
    /\ last.pos # Null
    /\ begin(State, last.l) = last.pos
    /\ value[last.pos] = last.val

\* C16: every link leads to a live heap node or is null; each list's chain is
\* finite and without a repeated node, made of live heap nodes only (no
\* sentinel, no freed node); the chains of distinct lists share no node.
C16_ChainsAcyclicAndDisjoint ==
    /\ \A n \in DOMAIN next_node : next_node[n] \in Allocated(State) \cup {Null}
    /\ \A l \in Constructed(State) :
         LET c == Chain(State, l)
         IN /\ Len(c) <= MaxNodes
            /\ Cardinality(SetOf(c)) = Len(c)
            /\ c # <<>> => next_node[c[Len(c)]] = Null
            /\ SetOf(c) \subseteq Allocated(State)
            /\ SetOf(c) \cap {head_(o) : o \in Lists \cup {rhs_copy}} = {}
            /\ \A o \in Constructed(State) \ {l} :
                 SetOf(c) \cap SetOf(Chain(State, o)) = {}

\* Two live lists of two nodes each, the second made by the copy constructor.
C16_Witness ==
    /\ last.op = "CopyCtor"
    /\ Constructed(State) = Lists
    /\ \A l \in Lists : Len(Chain(State, l)) = 2
    /\ Cardinality(Allocated(State)) = 4

\* C17: the list constructed from the values k1..kn yields exactly k1..kn in
\* this order, has GetSize() = n and n nodes of its own; no values give an
\* empty list.
C17_InitListKeepsOrder ==
    /\ \A l \in Lists \ Constructed(State) :
         \A values \in SeqsUpTo(Values, MaxInit) :
           \A a \in AllSucceed(State, Len(values)) :
             LET r == InitListCtor(State, l, values, a)
             IN fault = "none" =>
                  /\ ~r.threw
                  /\ l \in Constructed(r)
                  /\ Iterate(r, l) = values
                  /\ GetSize(r, l) = Len(values)
                  /\ Len(Chain(r, l)) = Len(values)
                  /\ SetOf(Chain(r, l)) = r.allocs
                  /\ r.allocs \cap Allocated(State) = {}
                  /\ values = <<>> => (IsEmpty(r, l) /\ begin(r, l) = end)
    /\ last.op = "InitListCtor" =>
         /\ Iterate(State, last.l) = last.log
         /\ GetSize(State, last.l) = Len(last.log)

\* A list has been constructed from two different values.
C17_Witness ==
    /\ last.op = "InitListCtor"
    /\ Len(last.log) = 2
    /\ last.log[1] # last.log[2]
    /\ Iterate(State, last.l) = last.log

\* C18: PopFront() on a list without a real node fails its assertion: when
\* assert(size_ > 0) passes, head_.next_node is a live node, and no call of
\* PopFront dereferences a null head_.next_node.
C18_PopFrontAssertGuards ==
    /\ fault # "null_deref"
    /\ \A l \in Constructed(State) :
         /\ begin(State, l) = end => PopFront(State, l).fault = "assert"
         /\ PopFront(State, l).fault # "assert" =>
              /\ begin(State, l) \in Allocated(State)
              /\ PopFront(State, l).fault = "none"

\* C19: IsEmpty() is true exactly when the list has no real node, that is
\* when begin() = end().
C19_IsEmptyIffNoNode ==
    \A l \in Constructed(State) :
        IsEmpty(State, l) <=> (begin(State, l) = end)

\* C20: every node that is allocated and not freed is in the chain of exactly
\* one live list.
C20_NoNodeLeaked ==
    \A n \in Allocated(State) :
        Cardinality({l \in Constructed(State) : n \in SetOf(Chain(State, l))}) = 1

====
